---- MODULE Spec2Model ----
(***************************************************************************)
(* Drum2Strudel: the audio analysis pipeline of                            *)
(* client/src/lib/audio-analysis.ts (analyzeDrumLoop and its helpers).     *)
(*                                                                         *)
(* Numbers.  JavaScript numbers that need not be integers are kept as      *)
(* exact fractions [n |-> numerator, d |-> denominator] in lowest terms;   *)
(* comparisons are made by cross multiplication, so no threshold is        *)
(* rounded.  Durations are in milliseconds.  Floating point rounding       *)
(* error is outside the model.                                             *)
(*                                                                         *)
(* Text.  A string is a sequence of fragments whose concatenation is the   *)
(* string.  Every fragment is either pure white space or free of white     *)
(* space, so that splitting on white space is decided by the fragments.    *)
(*                                                                         *)
(* External collaborators.  The decoder (decodeAudioData), the energy      *)
(* curve and peak picking on the raw samples, and the biquad filters of    *)
(* OfflineAudioContext are not re-implemented: the decoded duration, the   *)
(* picked onset peaks and the rendered (filtered) channel data are inputs  *)
(* drawn from bounded sets.  Rendered channel data is modelled at          *)
(* ModelRate samples per second instead of the decoded sample rate.        *)
(***************************************************************************)
EXTENDS Integers, Sequences, FiniteSets, TLC

(***************************************************************************)
(* Bounds of the model                                                     *)
(***************************************************************************)
MaxDurUnits == 9      \* decoded durations go up to MaxDurUnits seconds
MaxPeaks == 5         \* at most this many onset peaks are picked
MaxSeed == 1          \* rendered wave forms 0..MaxSeed
ModelRate == 32       \* samples per second of the modelled rendered data

(***************************************************************************)
(* Program constants                                                       *)
(***************************************************************************)
MaxDurationSec == 8   \* if (duration > 8)
hopSize == 512        \* const hopSize = 512
frameSize == 2048     \* const frameSize = 2048
MinPeaks == 4         \* if (peaks.length < 4) return 120
DefaultTempo == 120
MinTempo == 75        \* while (bpm < 75) bpm *= 2
MaxTempo == 160       \* while (bpm > 160) bpm /= 2
MinBeats == 2         \* beatsInLoop < 2
MaxBeats == 16        \* beatsInLoop > 16
stepsPerBeat == 8     \* const stepsPerBeat = 8; steps = beatsInLoop * 8
BeatsPerBar == 4      \* bars = beatsInLoop / 4; i += 4

(***************************************************************************)
(* Inputs                                                                  *)
(***************************************************************************)
\* Sample rate of the decoded AudioBuffer (the rate of the AudioContext).
SampleRates == {48000}

\* Decoded durations in milliseconds: whole seconds, and values whose third
\* decimal is not zero so that toFixed(2) has something to round.
Durations ==
    {k * 1000 : k \in 1..MaxDurUnits} \cup {k * 1000 - 504 : k \in 1..MaxDurUnits}

\* Distances, in hops, between consecutive onset peaks.  At 48 kHz one hop is
\* 10.67 ms: 14 hops are under 0.15 s and 188 hops over 2 s (both discarded);
\* 15 hops give 375 BPM, 35 hops 160.7 BPM, 75 hops exactly 75 BPM,
\* 76 hops 74.01 BPM and 187 hops 30.08 BPM.
Gaps == {14, 15, 35, 75, 76, 187, 188}

(***************************************************************************)
(* Arithmetic helpers                                                      *)
(***************************************************************************)
Abs(x) == IF x < 0 THEN -x ELSE x

Max(S) == CHOOSE x \in S : \A y \in S : y <= x

Min2(a, b) == IF a < b THEN a ELSE b

RECURSIVE GCD(_, _)
GCD(a, b) == IF b = 0 THEN a ELSE GCD(b, a % b)

\* The fraction n/d (d > 0) in lowest terms.
Rat(n, d) == LET g == GCD(Abs(n), d) IN [n |-> n \div g, d |-> d \div g]

RatLT(a, b) == a.n * b.d < b.n * a.d

IsInteger(x) == x.d = 1

\* Math.round on a non-negative fraction: the nearest integer, halves up.
MathRound(x) == (2 * x.n + x.d) \div (2 * x.d)

IsSeq(s) == DOMAIN s = 1..Len(s)

\* arr.length, without the filter
CountEntries(arr) == Len(arr)

\* Number of TRUE entries: arr.filter(x => x).length
CountTrue(arr) == Cardinality({i \in 1..Len(arr) : arr[i]})

(***************************************************************************)
(* Text                                                                    *)
(***************************************************************************)
Digit(k) == CASE k = 0 -> "0" [] k = 1 -> "1" [] k = 2 -> "2" [] k = 3 -> "3"
              [] k = 4 -> "4" [] k = 5 -> "5" [] k = 6 -> "6" [] k = 7 -> "7"
              [] k = 8 -> "8" [] k = 9 -> "9"

Digits == {Digit(k) : k \in 0..9}

\* Template interpolation ${n} of a non-negative integer: its decimal digits.
RECURSIVE NumToText(_)
NumToText(n) == IF n < 10 THEN <<Digit(n)>> ELSE NumToText(n \div 10) \o <<Digit(n % 10)>>

\* Number.prototype.toFixed(2) of a duration given in milliseconds.
ToFixed2(ms) ==
    LET h == (ms + 5) \div 10
    IN  NumToText(h \div 100) \o <<".", Digit((h % 100) \div 10), Digit(h % 10)>>

IsSpace(f) == f \in {" ", "  ", "    ", "\n"}

\* Array.prototype.join: the items (texts) with sep between neighbours.
RECURSIVE join(_, _)
join(items, sep) ==
    IF Len(items) = 0 THEN <<>>
    ELSE IF Len(items) = 1 THEN items[1]
    ELSE items[1] \o sep \o join(Tail(items), sep)

(***************************************************************************)
(* detectTempo, from the picked peaks on (audio-analysis.ts 139-164).      *)
(* peaks holds the frame indices i of the picked peaks; the code stores    *)
(* the times i * hopSize / sampleRate, so an inter-onset interval is       *)
(* gap * hopSize / sampleRate seconds for gap = peaks[i] - peaks[i-1].     *)
(***************************************************************************)
\* interval > 0.15 && interval < 2
RealisticInterval(gap, sampleRate) ==
    /\ gap * hopSize * 100 > 15 * sampleRate
    /\ gap * hopSize < 2 * sampleRate

PeakIntervals(peaks, sampleRate) ==
    LET all == [i \in 1..(IF Len(peaks) = 0 THEN 0 ELSE Len(peaks) - 1) |->
                    peaks[i + 1] - peaks[i]]
        Keep(g) == RealisticInterval(g, sampleRate)
    IN  SelectSeq(all, Keep)

\* intervals.sort((a, b) => a - b)
RECURSIVE InsertAsc(_, _)
InsertAsc(x, s) ==
    IF Len(s) = 0 THEN <<x>>
    ELSE IF x <= s[1] THEN <<x>> \o s
    ELSE <<s[1]>> \o InsertAsc(x, Tail(s))

RECURSIVE SortAsc(_)
SortAsc(s) == IF Len(s) = 0 THEN <<>> ELSE InsertAsc(s[1], SortAsc(Tail(s)))

\* intervals[Math.floor(intervals.length / 2)] of the sorted intervals
MedianInterval(intervals) == SortAsc(intervals)[(Len(intervals) \div 2) + 1]

\* while (bpm < 75) bpm *= 2;   iters counts the loop's iterations
RECURSIVE FoldUp(_, _)
FoldUp(bpm, iters) ==
    IF RatLT(bpm, Rat(MinTempo, 1)) THEN FoldUp(Rat(bpm.n * 2, bpm.d), iters + 1)
    ELSE [bpm |-> bpm, iters |-> iters]

\* A single halving instead of the loop.
HalveOnce(bpm, iters) ==
    IF RatLT(Rat(MaxTempo, 1), bpm) THEN [bpm |-> Rat(bpm.n, bpm.d * 2), iters |-> iters + 1]
    ELSE [bpm |-> bpm, iters |-> iters]

\* while (bpm > 160) bpm /= 2;
RECURSIVE FoldDown(_, _)
FoldDown(bpm, iters) ==
    IF RatLT(Rat(MaxTempo, 1), bpm) THEN FoldDown(Rat(bpm.n, bpm.d * 2), iters + 1)
    ELSE [bpm |-> bpm, iters |-> iters]

\* peaks.length < 3
TooFewPeaksThree(peaks) == Len(peaks) < 3

\* peaks.length < 4
TooFewPeaks(peaks) == Len(peaks) < MinPeaks

\* The value detectTempo returns (bpm), with whether fewer than 4 peaks had
\* been picked (sparse), the return statement that produced the value (via)
\* and the iterations its two folding loops made.
detectTempo(peaks, sampleRate) ==
    LET intervals == PeakIntervals(peaks, sampleRate)
    IN  IF TooFewPeaks(peaks)
        THEN [bpm |-> Rat(DefaultTempo, 1), sparse |-> Len(peaks) < MinPeaks,
              via |-> "fewPeaks", doubled |-> 0, halved |-> 0]
        ELSE IF Len(intervals) = 0
        THEN [bpm |-> Rat(DefaultTempo, 1), sparse |-> Len(peaks) < MinPeaks,
              via |-> "noIntervals", doubled |-> 0, halved |-> 0]
        ELSE LET gap  == MedianInterval(intervals)
                 raw  == Rat(60 * sampleRate, gap * hopSize)
                 up   == FoldUp(raw, 0)
                 down == FoldDown(up.bpm, 0)
             IN  [bpm |-> down.bpm, sparse |-> Len(peaks) < MinPeaks, via |-> "median",
                  doubled |-> up.iters, halved |-> down.iters]

(***************************************************************************)
(* getStepEnergy (audio-analysis.ts 167-198).  An entry holds the peak and *)
(* the SQUARE of the rms, both normalized, as exact fractions; 0/0 (NaN)   *)
(* is the fraction [n |-> 0, d |-> 0], which compares false with all.      *)
(***************************************************************************)
Div(n, d) == IF d = 0 THEN [n |-> 0, d |-> 0] ELSE Rat(n, d)

RatMul(a, b) == Div(a.n * b.n, a.d * b.d)

IsNaN(x) == x.d = 0

\* sum += val * val over the 1-based indices lo..hi
RECURSIVE SumSquares(_, _, _)
SumSquares(data, lo, hi) ==
    IF lo > hi THEN 0 ELSE data[lo] * data[lo] + SumSquares(data, lo + 1, hi)

\* The largest sample, without Math.abs.
GlobalMaxSigned(data) == Max({0} \cup {data[i] : i \in 1..Len(data)})

\* let globalMax = 0; ... if (val > globalMax) globalMax = val
GlobalMax(data) == Max({0} \cup {Abs(data[i]) : i \in 1..Len(data)})

\* Dividing by the global peak itself.
NormRaw(globalMax) == globalMax

\* (globalMax || 1)
Norm(globalMax) == IF globalMax = 0 THEN 1 ELSE globalMax

\* One pass of the loop over step (0-based), data being 1-based here.
StepEntry(data, stepSize, norm, step) ==
    LET start == step * stepSize
        end   == start + stepSize
        last  == Min2(end, Len(data))        \* i < end && i < data.length
        sum   == SumSquares(data, start + 1, last)
        peak  == Max({0} \cup {Abs(data[i]) : i \in (start + 1)..last})
    IN  [rms2 |-> Div(sum, (end - start) * norm * norm),
         peak |-> Div(peak, norm)]

\* The loop running one step short.
StepEnergyShort(data, steps) ==
    LET stepSize == Len(data) \div steps
        norm == Norm(GlobalMax(data))
    IN  [s \in 1..(steps - 1) |-> StepEntry(data, stepSize, norm, s - 1)]

getStepEnergy(data, steps) ==
    LET stepSize == Len(data) \div steps
        norm == Norm(GlobalMax(data))
    IN  [s \in 1..steps |-> StepEntry(data, stepSize, norm, s - 1)]

(***************************************************************************)
(* classifyKicks, classifySnares, classifyHiHats (200-219)                 *)
(***************************************************************************)
\* e.rms > num/den, decided on the squares (both sides are >= 0)
RmsGT(e, num, den) == RatLT(Rat(num * num, den * den), e.rms2)

RmsLT(e, num, den) == RatLT(e.rms2, Rat(num * num, den * den))

PeakGT(e, num, den) == RatLT(Rat(num, den), e.peak)

\* a.rms > b.rms * 1.5
RmsGT15(a, b) == RatLT(RatMul(b.rms2, Rat(9, 4)), a.rms2)

classifyKicks(lows, mids, highs) ==
    [i \in 1..Len(lows) |->
        RmsGT(lows[i], 15, 100) /\ PeakGT(lows[i], 3, 10) /\ RmsGT15(lows[i], highs[i])]

\* A snare only where no kick was found.
classifySnaresUnlessKick(lows, mids, highs) ==
    [i \in 1..Len(mids) |->
        /\ RmsGT(mids[i], 15, 100) /\ PeakGT(mids[i], 25, 100) /\ RmsLT(lows[i], 4, 10)
        /\ ~classifyKicks(lows, mids, highs)[i]]

classifySnares(lows, mids, highs) ==
    [i \in 1..Len(mids) |->
        RmsGT(mids[i], 15, 100) /\ PeakGT(mids[i], 25, 100) /\ RmsLT(lows[i], 4, 10)]

classifyHiHats(lows, mids, highs) ==
    [i \in 1..Len(highs) |->
        /\ RmsGT(highs[i], 5, 100)
        /\ PeakGT(highs[i], 1, 10)
        /\ RmsLT(lows[i], 2, 10)
        /\ RmsLT(mids[i], 2, 10)]

(***************************************************************************)
(* patternToString and generateDrumCode (221-263)                          *)
(***************************************************************************)
\* hit ? '~' : sound
HitTokenSwapped(hit, sound) == IF hit THEN "~" ELSE sound

\* hit ? sound : '~'
HitToken(hit, sound) == IF hit THEN sound ELSE "~"

\* The beat strings: 8 tokens each (fewer in a trailing partial beat),
\* joined by single spaces.
patternToString(pattern, sound) ==
    LET n == Len(pattern)
        nBeats == (n + stepsPerBeat - 1) \div stepsPerBeat
        BeatSteps(b) == SubSeq(pattern, (b - 1) * stepsPerBeat + 1,
                               Min2(b * stepsPerBeat, n))
        BeatStr(b) == LET steps == BeatSteps(b)
                      IN  join([k \in 1..Len(steps) |-> <<HitToken(steps[k], sound)>>],
                               <<" ">>)
    IN  [b \in 1..nBeats |-> BeatStr(b)]

\* The bar lines of a track, one line per line of the template literal.
RECURSIVE BarLines(_)
BarLines(beatArray) ==
    IF Len(beatArray) = 0 THEN <<>>
    ELSE LET barBeats == SubSeq(beatArray, 1, Min2(BeatsPerBar, Len(beatArray)))
             rest == SubSeq(beatArray, Len(barBeats) + 1, Len(beatArray))
         IN  <<"    ">> \o join(barBeats, <<"  ">>) \o <<"\n">> \o BarLines(rest)

\* The opening and closing fragments of a track's template literal.  The
\* apostrophe stands for the back quote, which a TLA+ string cannot hold.
TrackOpen == "s('"

TrackClose == "')"

buildInstrumentTrack(beatArray) ==
    <<"  ", TrackOpen, "\n">> \o BarLines(beatArray) \o <<"  ", TrackClose>>

generateDrumCode(kicks, snares, hihats, bpm, beats) ==
    LET kickBeats  == patternToString(kicks, "bd")
        snareBeats == patternToString(snares, "sd")
        hihatBeats == patternToString(hihats, "hh")
    IN  <<"//", " ">> \o NumToText(beats)
           \o <<" ", "beat", " ", "drum", " ", "loop", " ", "@", " ">>
           \o NumToText(MathRound(bpm)) \o <<" ", "BPM", "\n">>
        \o <<"//", " ", "32nd", " ", "note", " ", "quantization", "\n", "\n">>
        \o <<"stack(", "\n">>
        \o buildInstrumentTrack(kickBeats) \o <<",", "\n">>
        \o buildInstrumentTrack(snareBeats) \o <<",", "\n">>
        \o buildInstrumentTrack(hihatBeats) \o <<"\n">>
        \o <<").slow(">> \o NumToText(beats) \o <<").cpm(">>
           \o NumToText(MathRound(bpm)) \o <<")">>

(***************************************************************************)
(* What the external collaborators may hand to the pipeline                *)
(***************************************************************************)
\* The uploaded files: decodable ones with their decoded duration and sample
\* rate, and one the decoder rejects.
Files ==
    {[ok |-> TRUE, duration |-> d, sampleRate |-> r] : d \in Durations, r \in SampleRates}
        \cup {[ok |-> FALSE, duration |-> 0, sampleRate |-> 0]}

\* audioBuffer.length of a decoded file
BufferLength(f) == (f.duration * f.sampleRate) \div 1000

\* energies.length: the i = 0, hopSize, 2 hopSize, ... with i < length - frameSize
NumFrames(length) ==
    IF length <= frameSize THEN 0 ELSE ((length - frameSize - 1) \div hopSize) + 1

RECURSIVE SumTo(_, _)
SumTo(g, k) == IF k = 0 THEN 0 ELSE g[k] + SumTo(g, k - 1)

GapSeqs == UNION {[1..n -> Gaps] : n \in 0..(MaxPeaks - 1)}

\* The peak arrays the peak picking loop (126-137) can produce on a curve of
\* numFrames energies: increasing frame indices in 2..numFrames-3.  (A peak
\* is strictly above its two neighbours on each side, so two peaks are at
\* least 3 frames apart; every gap of Gaps is.)
PickedPeaks(numFrames) ==
    {<<>>} \cup
    {p \in {[i \in 1..(Len(g) + 1) |-> 2 + SumTo(g, i - 1)] : g \in GapSeqs} :
        p[Len(p)] <= numFrames - 3}

\* Sample i (0-based) of the rendered wave form number seed: silence for
\* seed 0, otherwise a full scale impulse of alternating sign every seed+2
\* samples, followed by a quarter scale sample and then silence.
Wave(seed, i) ==
    IF seed = 0 THEN 0
    ELSE LET period == seed + 2
             r == i % period
         IN  IF r = 0 THEN (IF (i \div period) % 2 = 0 THEN 4 ELSE -4)
             ELSE IF r = 1 THEN 1 ELSE 0

Seeds == 0..MaxSeed

\* renderedBuffer.getChannelData(0) for a buffer of the given duration
RenderedData(seed, duration) ==
    [i \in 1..((duration * ModelRate) \div 1000) |-> Wave(seed, i - 1)]

(***************************************************************************)
(* Error messages                                                          *)
(***************************************************************************)
ReadMessage == <<"NotReadableError">>

DecodeMessage == <<"EncodingError">>

RenderMessage == <<"RenderingError">>

CtorMessage == <<"NotSupportedError">>

\* 'File is too long! Please use loops of 1-4 bars (typically under 8 seconds).'
DurationMessage ==
    <<"File", " ", "is", " ", "too", " ", "long!", " ", "Please", " ", "use", " ",
      "loops", " ", "of", " ", "1-4", " ", "bars", " ", "(typically", " ", "under",
      " ", "8", " ", "seconds).">>

\* `Detected ${beatsInLoop} beats - should be 4-16 beats. Try a different loop.`
BeatCountMessage(beatsInLoop) ==
    <<"Detected", " ">> \o NumToText(beatsInLoop)
        \o <<" ", "beats", " ", "-", " ", "should", " ", "be", " ", "4-16", " ",
             "beats.", " ", "Try", " ", "a", " ", "different", " ", "loop.">>

(***************************************************************************)
(* State of one invocation of analyzeDrumLoop                              *)
(***************************************************************************)
VARIABLES
    file,          \* the File argument
    pc,            \* where the invocation stands
    audioContext,  \* "none", "open" or "closed"
    closes,        \* how many times audioContext.close() was called
    audioBuffer,   \* the decoded buffer: [duration, sampleRate, length], or None
    tempo,         \* what detectTempo returned, or None
    beatsInLoop,   \* Math.round((duration / 60) * bpm), or None
    bars,          \* beatsInLoop / 4, or None
    steps,         \* beatsInLoop * 8, or None
    tasks,         \* state of the three getFilteredData promises
    rendered,      \* per filter type, the wave form its rendering produced
    inArrayOrder,  \* no rendering has completed before one listed ahead of it
    slots,         \* the result array of Promise.all
    bands,         \* { lows, mids, highs } once analyzeFrequencies returned
    hits,          \* [kicks, snares, hihats] once classified
    drumPattern,   \* the DrumPattern record, or None
    code,          \* the generated Strudel code
    outcome,       \* "pending", "fulfilled" or "rejected"
    error          \* the message of the thrown Error

invocation == <<file, pc, audioContext, closes, audioBuffer, tempo, beatsInLoop,
                bars, steps, tasks, rendered, inArrayOrder, slots, bands, hits,
                drumPattern, code, outcome, error>>

(***************************************************************************)
(* State of the page that calls analyzeDrumLoop (home.tsx 24-45)           *)
(***************************************************************************)
VARIABLES
    uploads,       \* the invocations of handleFileUpload so far, in order
    messages,      \* useState<Message[]>
    isTyping,      \* useState(false)
    currentCode,   \* useState('// No code generated yet...')
    activeFile,    \* useState<File | null>(null): the name of the file
    audioUrl,      \* useState<string | null>(null): the upload whose URL it is
    toasts,        \* what toast() was called with, in order
    timers         \* the pending setTimeout callbacks, in the order they fire

page == <<uploads, messages, isTyping, currentCode, activeFile, audioUrl, toasts,
          timers>>

(***************************************************************************)
(* A call of getStepEnergy taken on its own (167-198)                      *)
(***************************************************************************)
VARIABLE
    energyCall     \* its arguments data and steps and what it returned, or None

vars == <<invocation, page, energyCall>>

\* An optional value is a sequence of length 0 (absent) or 1 (present).
Nothing == <<>>

Some(x) == <<x>>

The(opt) == opt[1]

\* The three calls handed to Promise.all, in array order (102-106).
FilterTypes == <<"lowpass", "bandpass", "highpass">>

FilterTypeSet == {FilterTypes[k] : k \in 1..3}

Tasks == 1..3

\* 34: the code pane before anything was generated
NoCodeYet == <<"//", " ", "No", " ", "code", " ", "generated", " ", "yet...">>

\* A chat message: who wrote it, the file it is about, the beats and bpm its
\* content quotes and its code block (text and codeBlock empty, beats and bpm
\* 0 where the message has none).
Message(role, name, beats, bpm, codeBlock) ==
    [role |-> role, name |-> name, beats |-> beats, bpm |-> bpm,
     codeBlock |-> codeBlock]

\* 24-31: the greeting the chat starts with
Greeting == Message("agent", "", 0, 0, <<>>)

\* 24-45
PageInit ==
    /\ uploads = <<>>
    /\ messages = <<Greeting>>
    /\ isTyping = FALSE
    /\ currentCode = NoCodeYet
    /\ activeFile = Nothing
    /\ audioUrl = Nothing
    /\ toasts = <<>>
    /\ timers = <<>>

Init ==
    /\ PageInit
    /\ energyCall = Nothing
    /\ file \in Files
    /\ pc = "idle"
    /\ audioContext = "none"
    /\ closes = 0
    /\ audioBuffer = Nothing
    /\ tempo = Nothing
    /\ beatsInLoop = Nothing
    /\ bars = Nothing
    /\ steps = Nothing
    /\ tasks = [k \in Tasks |-> "idle"]
    /\ rendered = [t \in FilterTypeSet |-> Nothing]
    /\ inArrayOrder = TRUE
    /\ slots = [k \in Tasks |-> Nothing]
    /\ bands = Nothing
    /\ hits = Nothing
    /\ drumPattern = Nothing
    /\ code = <<>>
    /\ outcome = "pending"
    /\ error = <<>>

(***************************************************************************)
(* try { ... } finally { audioContext.close() }  (19, 70-72)               *)
(***************************************************************************)
\* close() placed at the end of the try block instead of in a finally.
CloseOnReturnOnly ==
    IF outcome' = "fulfilled"
    THEN audioContext' = "closed" /\ closes' = closes + 1
    ELSE UNCHANGED <<audioContext, closes>>

Finally ==
    /\ audioContext' = "closed"
    /\ closes' = closes + 1

\* throw new Error(message) inside the try block, or a rejected await
Throw(message) ==
    /\ pc' = "failed"
    /\ outcome' = "rejected"
    /\ error' = message
    /\ Finally

(***************************************************************************)
(* analyzeDrumLoop (16-73), one action per step                            *)
(***************************************************************************)
\* 17, 20: the context is constructed and file.arrayBuffer() is awaited.
\* The constructor runs before the try block: when it throws, the promise
\* is rejected and there is no context to close.
Start ==
    /\ pc = "idle"
    /\ \/ /\ pc' = "reading"
          /\ audioContext' = "open"
          /\ UNCHANGED <<outcome, error>>
       \/ /\ pc' = "failed"
          /\ outcome' = "rejected"
          /\ error' = CtorMessage
          /\ UNCHANGED audioContext
    /\ UNCHANGED <<file, closes, audioBuffer, tempo, beatsInLoop, bars, steps,
                   tasks, rendered, inArrayOrder, slots, bands, hits, drumPattern, code>>
    /\ UNCHANGED <<page, energyCall>>

\* 20-21: the bytes arrive and decodeAudioData is awaited, or the read fails.
ArrayBufferSettled ==
    /\ pc = "reading"
    /\ \/ /\ pc' = "decoding"
          /\ UNCHANGED <<audioContext, closes, outcome, error>>
       \/ Throw(ReadMessage)
    /\ UNCHANGED <<file, audioBuffer, tempo, beatsInLoop, bars, steps, tasks,
                   rendered, inArrayOrder, slots, bands, hits, drumPattern, code>>
    /\ UNCHANGED <<page, energyCall>>

\* 21-25: decodeAudioData resolves with the buffer, or rejects.
DecodeSettled ==
    /\ pc = "decoding"
    /\ IF file.ok
       THEN /\ pc' = "decoded"
            /\ audioBuffer' = Some([duration |-> file.duration,
                                    sampleRate |-> file.sampleRate,
                                    length |-> BufferLength(file)])
            /\ UNCHANGED <<audioContext, closes, outcome, error>>
       ELSE /\ Throw(DecodeMessage)
            /\ UNCHANGED audioBuffer
    /\ UNCHANGED <<file, tempo, beatsInLoop, bars, steps, tasks, rendered, inArrayOrder, slots,
                   bands, hits, drumPattern, code>>
    /\ UNCHANGED <<page, energyCall>>

\* duration >= 8
TooLongInclusive(duration) == duration >= MaxDurationSec * 1000

\* duration > 8
TooLong(duration) == duration > MaxDurationSec * 1000

\* 27-30
CheckDuration ==
    /\ pc = "decoded"
    /\ IF TooLong(The(audioBuffer).duration)
       THEN Throw(DurationMessage)
       ELSE /\ pc' = "checked"
            /\ UNCHANGED <<audioContext, closes, outcome, error>>
    /\ UNCHANGED <<file, audioBuffer, tempo, beatsInLoop, bars, steps, tasks,
                   rendered, inArrayOrder, slots, bands, hits, drumPattern, code>>
    /\ UNCHANGED <<page, energyCall>>

\* 33: detectTempo(channelData, sampleRate), on the peaks its peak picking
\* found in the channel data
DetectTempo ==
    /\ pc = "checked"
    /\ \E peaks \in PickedPeaks(NumFrames(The(audioBuffer).length)) :
          tempo' = Some(detectTempo(peaks, The(audioBuffer).sampleRate))
    /\ pc' = "tempo"
    /\ UNCHANGED <<file, audioContext, closes, audioBuffer, beatsInLoop, bars,
                   steps, tasks, rendered, inArrayOrder, slots, bands, hits, drumPattern, code,
                   outcome, error>>
    /\ UNCHANGED <<page, energyCall>>

\* Math.round((duration / 60) * bpm), duration in milliseconds
BeatsInLoop(duration, bpm) == MathRound(Rat(duration * bpm.n, 60000 * bpm.d))

\* 36-37
ComputeBeats ==
    /\ pc = "tempo"
    /\ LET b == BeatsInLoop(The(audioBuffer).duration, The(tempo).bpm)
       IN  /\ beatsInLoop' = Some(b)
           /\ bars' = Some(Rat(b, BeatsPerBar))
    /\ pc' = "beats"
    /\ UNCHANGED <<file, audioContext, closes, audioBuffer, tempo, steps, tasks,
                   rendered, inArrayOrder, slots, bands, hits, drumPattern, code, outcome, error>>
    /\ UNCHANGED <<page, energyCall>>

\* The bounds the error message announces: beatsInLoop < 4 || beatsInLoop > 16
BadBeatCountAsMessage(b) == b < 4 \/ b > MaxBeats

\* Only the lower bound: beatsInLoop < 2
BadBeatCountLowOnly(b) == b < MinBeats

\* beatsInLoop < 2 || beatsInLoop > 16
BadBeatCount(b) == b < MinBeats \/ b > MaxBeats

\* 40-42
ValidateBeats ==
    /\ pc = "beats"
    /\ IF BadBeatCount(The(beatsInLoop))
       THEN Throw(BeatCountMessage(The(beatsInLoop)))
       ELSE /\ pc' = "valid"
            /\ UNCHANGED <<audioContext, closes, outcome, error>>
    /\ UNCHANGED <<file, audioBuffer, tempo, beatsInLoop, bars, steps, tasks,
                   rendered, inArrayOrder, slots, bands, hits, drumPattern, code>>
    /\ UNCHANGED <<page, energyCall>>

\* beatsInLoop * 4 (16th notes)
StepsSixteenth(b) == b * 4

\* 45: const steps = beatsInLoop * 8
StepsFor(b) == b * stepsPerBeat

\* 45, 49, 75-106: steps is computed and analyzeFrequencies starts the three
\* renderings and awaits Promise.all
StartBands ==
    /\ pc = "valid"
    /\ steps' = Some(StepsFor(The(beatsInLoop)))
    /\ tasks' = [k \in Tasks |-> "rendering"]
    /\ pc' = "rendering"
    /\ UNCHANGED <<file, audioContext, closes, audioBuffer, tempo, beatsInLoop, bars,
                   rendered, inArrayOrder, slots, bands, hits, drumPattern, code, outcome, error>>
    /\ UNCHANGED <<page, energyCall>>

\* Results stored in the order the promises settle.
SettleInArrivalOrder(results, k, value) ==
    LET free == CHOOSE j \in Tasks :
                    results[j] = Nothing /\ \A i \in 1..(j - 1) : results[i] # Nothing
    IN  [results EXCEPT ![free] = Some(value)]

\* Promise.all keeps each result at the index of its promise.
Settle(results, k, value) == [results EXCEPT ![k] = Some(value)]

\* 98-99: the k-th rendering completes and its continuation computes the band's
\* step energies.  The rendering runs in its own OfflineAudioContext, also
\* after the invocation has been rejected.
RenderDone(k) ==
    /\ tasks[k] = "rendering"
    /\ \E seed \in Seeds :
          /\ rendered' = [rendered EXCEPT ![FilterTypes[k]] = Some(seed)]
          /\ slots' = Settle(slots, k,
                 getStepEnergy(RenderedData(seed, The(audioBuffer).duration), The(steps)))
    /\ tasks' = [tasks EXCEPT ![k] = "fulfilled"]
    /\ inArrayOrder' = (inArrayOrder /\ \A j \in 1..(k - 1) : tasks[j] # "rendering")
    /\ UNCHANGED <<file, pc, audioContext, closes, audioBuffer, tempo, beatsInLoop,
                   bars, steps, bands, hits, drumPattern, code, outcome, error>>
    /\ UNCHANGED <<page, energyCall>>

\* 98: startRendering rejects; Promise.all rejects with the first rejection and
\* the await at 49 throws
RenderFailed(k) ==
    /\ tasks[k] = "rendering"
    /\ tasks' = [tasks EXCEPT ![k] = "rejected"]
    /\ IF pc = "rendering"
       THEN Throw(RenderMessage)
       ELSE UNCHANGED <<pc, audioContext, closes, outcome, error>>
    /\ UNCHANGED <<file, audioBuffer, tempo, beatsInLoop, bars, steps, rendered, inArrayOrder,
                   slots, bands, hits, drumPattern, code>>
    /\ UNCHANGED <<page, energyCall>>

\* Resolving with the first promise that is fulfilled.
AnyFulfilled(t) == \E k \in Tasks : t[k] = "fulfilled"

\* Promise.all resolves once every promise is fulfilled.
AllFulfilled(t) == \A k \in Tasks : t[k] = "fulfilled"

\* An element of the result array; one that was never stored has no steps.
Profile(slot) == IF slot = Nothing THEN <<>> ELSE The(slot)

\* 102-108, 49: all three promises are fulfilled and the result array is
\* destructured into lows, mids, highs
Join ==
    /\ pc = "rendering"
    /\ AllFulfilled(tasks)
    /\ bands' = Some([lows |-> Profile(slots[1]), mids |-> Profile(slots[2]),
                      highs |-> Profile(slots[3])])
    /\ pc' = "joined"
    /\ UNCHANGED <<file, audioContext, closes, audioBuffer, tempo, beatsInLoop, bars,
                   steps, tasks, rendered, inArrayOrder, slots, hits, drumPattern, code, outcome,
                   error>>
    /\ UNCHANGED <<page, energyCall>>

\* 52-54
Classify ==
    /\ pc = "joined"
    /\ LET b == The(bands)
       IN  hits' = Some([kicks  |-> classifyKicks(b.lows, b.mids, b.highs),
                         snares |-> classifySnares(b.lows, b.mids, b.highs),
                         hihats |-> classifyHiHats(b.lows, b.mids, b.highs)])
    /\ pc' = "classified"
    /\ UNCHANGED <<file, audioContext, closes, audioBuffer, tempo, beatsInLoop, bars,
                   steps, tasks, rendered, inArrayOrder, slots, bands, drumPattern, code, outcome,
                   error>>
    /\ UNCHANGED <<page, energyCall>>

\* bpm: bpm, without Math.round
BpmField(bpm) == bpm

\* bpm: Math.round(bpm)
RoundedBpm(bpm) == Rat(MathRound(bpm), 1)

\* 56-64: every number field is kept as a fraction
MakePattern ==
    /\ pc = "classified"
    /\ drumPattern' = Some(
          [bpm      |-> RoundedBpm(The(tempo).bpm),
           beats    |-> Rat(The(beatsInLoop), 1),
           bars     |-> The(bars),
           kicks    |-> Rat(CountTrue(The(hits).kicks), 1),
           snares   |-> Rat(CountTrue(The(hits).snares), 1),
           hihats   |-> Rat(CountTrue(The(hits).hihats), 1),
           duration |-> ToFixed2(The(audioBuffer).duration)])
    /\ pc' = "patterned"
    /\ UNCHANGED <<file, audioContext, closes, audioBuffer, tempo, beatsInLoop, bars,
                   steps, tasks, rendered, inArrayOrder, slots, bands, hits, code, outcome, error>>
    /\ UNCHANGED <<page, energyCall>>

\* 67-72: the code is generated, the result returned and the context closed
Return ==
    /\ pc = "patterned"
    /\ code' = generateDrumCode(The(hits).kicks, The(hits).snares, The(hits).hihats,
                                The(tempo).bpm, The(beatsInLoop))
    /\ pc' = "done"
    /\ outcome' = "fulfilled"
    /\ Finally
    /\ UNCHANGED <<file, audioBuffer, tempo, beatsInLoop, bars, steps, tasks,
                   rendered, inArrayOrder, slots, bands, hits, drumPattern, error>>
    /\ UNCHANGED <<page, energyCall>>

Next ==
    \/ Start
    \/ ArrayBufferSettled
    \/ DecodeSettled
    \/ CheckDuration
    \/ DetectTempo
    \/ ComputeBeats
    \/ ValidateBeats
    \/ StartBands
    \/ \E k \in Tasks : RenderDone(k)
    \/ \E k \in Tasks : RenderFailed(k)
    \/ Join
    \/ Classify
    \/ MakePattern
    \/ Return

Spec == Init /\ [][Next]_vars

(***************************************************************************)
(* analyzeDrumLoop as a whole (16-73): what the promise it returns settles *)
(* with, given the file, the collaborator that fails (if any), the peaks   *)
(* the peak picking finds and the wave forms the three filters render.     *)
(***************************************************************************)
\* return { pattern: drumPattern, code }: the code, and the two fields of
\* the pattern the page reads
Fulfilled(resultCode, beats, bpm) ==
    [ok |-> TRUE, code |-> resultCode, beats |-> beats, bpm |-> bpm, message |-> <<>>]

\* A rejected promise carries the Error and nothing else.
Rejected(message) ==
    [ok |-> FALSE, code |-> <<>>, beats |-> 0, bpm |-> 0, message |-> message]

\* The collaborator that fails: none, the AudioContext constructor,
\* file.arrayBuffer() or startRendering().
Faults == {"none", "ctor", "read", "render"}

analyzeDrumLoop(f, fault, peaks, seeds) ==
    IF fault = "ctor" THEN Rejected(CtorMessage)
    ELSE IF fault = "read" THEN Rejected(ReadMessage)
    ELSE IF ~f.ok THEN Rejected(DecodeMessage)
    ELSE IF TooLong(f.duration) THEN Rejected(DurationMessage)
    ELSE LET bpm == detectTempo(peaks, f.sampleRate).bpm
             b   == BeatsInLoop(f.duration, bpm)
         IN  IF BadBeatCount(b) THEN Rejected(BeatCountMessage(b))
             ELSE IF fault = "render" THEN Rejected(RenderMessage)
             ELSE LET n      == StepsFor(b)
                      lows   == getStepEnergy(RenderedData(seeds[1], f.duration), n)
                      mids   == getStepEnergy(RenderedData(seeds[2], f.duration), n)
                      highs  == getStepEnergy(RenderedData(seeds[3], f.duration), n)
                      kicks  == classifyKicks(lows, mids, highs)
                      snares == classifySnares(lows, mids, highs)
                      hihats == classifyHiHats(lows, mids, highs)
                  IN  Fulfilled(generateDrumCode(kicks, snares, hihats, bpm, b),
                                b, RoundedBpm(bpm).n)

(***************************************************************************)
(* handleFileUpload (home.tsx 63-121)                                      *)
(***************************************************************************)
\* How many times the file input may change.
MaxUploads == 2

\* The files the user picks from: a text file, a file the decoder rejects, a
\* loop of half a second, one of one second, one of two seconds, and a
\* recording of 9 seconds.
Picks ==
    {[name |-> "notes.txt", audio |-> FALSE, ok |-> FALSE, duration |-> 0, sampleRate |-> 0],
     [name |-> "noise.wav", audio |-> TRUE, ok |-> FALSE, duration |-> 0, sampleRate |-> 0],
     [name |-> "half.wav", audio |-> TRUE, ok |-> TRUE, duration |-> 496, sampleRate |-> 48000],
     [name |-> "loop.wav", audio |-> TRUE, ok |-> TRUE, duration |-> 1000, sampleRate |-> 48000],
     [name |-> "fill.wav", audio |-> TRUE, ok |-> TRUE, duration |-> 2000, sampleRate |-> 48000],
     [name |-> "take.wav", audio |-> TRUE, ok |-> TRUE, duration |-> 9000, sampleRate |-> 48000]}

\* What the three filters render for an uploaded file: a wave form in the
\* low band and silence in the other two.
RenderedTriples == {<<1, 0, 0>>}

\* What the peak picking finds in an uploaded file of numFrames energies: no
\* peak at all, or four peaks 15 hops apart (93.75 BPM) where they fit.
FoundPeaks(numFrames) ==
    {p \in {<<>>, <<2, 17, 32, 47>>} : Len(p) = 0 \/ p[Len(p)] <= numFrames - 3}

\* e.target.files?.[0]
ChangeEvents == {Nothing} \cup {Some(f) : f \in Picks}

\* 68-72
InvalidFileToast ==
    [title |-> <<"Invalid", " ", "File">>,
     description |-> <<"Please", " ", "upload", " ", "an", " ", "audio", " ", "file",
                       " ", "(MP3,", " ", "WAV,", " ", "OGG)">>]

\* description: a fixed text
DescriptionGeneric(err) == <<"Something", " ", "went", " ", "wrong">>

\* description: err.message
Description(err) == err.message

\* 115-119
AnalysisFailedToast(err) ==
    [title |-> <<"Analysis", " ", "Failed">>, description |-> Description(err)]

\* One invocation of handleFileUpload: the file it was called with, where it
\* stands, and what its await of analyzeDrumLoop settled with.
Invocation(f, phase, settled) == [file |-> f, phase |-> phase, settled |-> settled]

\* 63-94: the synchronous part of the handler, up to the await
Upload ==
    /\ Len(uploads) < MaxUploads
    /\ \E e \in ChangeEvents :
          IF e = Nothing
          THEN /\ uploads' = Append(uploads, Invocation(Nothing, "returned", Nothing))
               /\ UNCHANGED <<messages, isTyping, activeFile, audioUrl, toasts>>
          ELSE IF ~The(e).audio
          THEN /\ uploads' = Append(uploads, Invocation(e, "returned", Nothing))
               /\ toasts' = Append(toasts, InvalidFileToast)
               /\ UNCHANGED <<messages, isTyping, activeFile, audioUrl>>
          ELSE /\ uploads' = Append(uploads, Invocation(e, "awaiting", Nothing))
               /\ messages' = Append(messages, Message("user", The(e).name, 0, 0, <<>>))
               /\ activeFile' = Some(The(e).name)
               /\ audioUrl' = Some(Len(uploads) + 1)
               /\ isTyping' = TRUE
               /\ UNCHANGED toasts
    /\ UNCHANGED <<currentCode, timers>>
    /\ UNCHANGED <<invocation, energyCall>>

\* 96-111: the await yields a result and the display is scheduled
Scheduled(u, result) ==
    /\ uploads' = [uploads EXCEPT ![u].phase = "scheduled", ![u].settled = Some(result)]
    /\ timers' = Append(timers, u)
    /\ UNCHANGED <<messages, isTyping, currentCode, activeFile, audioUrl, toasts>>

\* 112-120: the await throws and the catch block runs
Caught(u, err) ==
    /\ uploads' = [uploads EXCEPT ![u].phase = "caught", ![u].settled = Some(err)]
    /\ isTyping' = FALSE
    /\ toasts' = Append(toasts, AnalysisFailedToast(err))
    /\ UNCHANGED <<messages, currentCode, activeFile, audioUrl, timers>>

\* 96: the promise of analyzeDrumLoop(file) settles and the handler resumes
AnalysisSettled(u) ==
    /\ uploads[u].phase = "awaiting"
    /\ LET f == The(uploads[u].file)
       IN  \E fault \in Faults, seeds \in RenderedTriples,
              peaks \in FoundPeaks(NumFrames(BufferLength(f))) :
                LET result == analyzeDrumLoop(f, fault, peaks, seeds)
                IN  IF result.ok THEN Scheduled(u, result) ELSE Caught(u, result)
    /\ UNCHANGED <<invocation, energyCall>>

\* 99-110: 1500 ms after it was scheduled, the callback shows the result.
\* All delays being equal, the callbacks run in the order they were scheduled.
TimerFired ==
    /\ Len(timers) > 0
    /\ LET u == Head(timers)
           result == The(uploads[u].settled)
       IN  /\ isTyping' = FALSE
           /\ currentCode' = result.code
           /\ messages' = Append(messages,
                  Message("agent", The(uploads[u].file).name, result.beats, result.bpm,
                          result.code))
           /\ uploads' = [uploads EXCEPT ![u].phase = "shown"]
    /\ timers' = Tail(timers)
    /\ UNCHANGED <<activeFile, audioUrl, toasts>>
    /\ UNCHANGED <<invocation, energyCall>>

PageNext ==
    \/ Upload
    \/ \E u \in 1..MaxUploads : u <= Len(uploads) /\ AnalysisSettled(u)
    \/ TimerFired

\* The page alone: the invocation variables stay as they start.
UploadInit ==
    /\ PageInit
    /\ energyCall = Nothing
    /\ file = [ok |-> FALSE, duration |-> 0, sampleRate |-> 0]
    /\ pc = "idle"
    /\ audioContext = "none"
    /\ closes = 0
    /\ audioBuffer = Nothing
    /\ tempo = Nothing
    /\ beatsInLoop = Nothing
    /\ bars = Nothing
    /\ steps = Nothing
    /\ tasks = [k \in Tasks |-> "idle"]
    /\ rendered = [t \in FilterTypeSet |-> Nothing]
    /\ inArrayOrder = TRUE
    /\ slots = [k \in Tasks |-> Nothing]
    /\ bands = Nothing
    /\ hits = Nothing
    /\ drumPattern = Nothing
    /\ code = <<>>
    /\ outcome = "pending"
    /\ error = <<>>

UploadSpec == UploadInit /\ [][PageNext]_vars

(***************************************************************************)
(* Properties                                                              *)
(***************************************************************************)
Settled == outcome # "pending"

Duration == The(audioBuffer).duration

IsBeatCountError(message) == Len(message) > 0 /\ message[1] = "Detected"

\* The value of a text of decimal digits.
RECURSIVE TextToNum(_)
TextToNum(t) ==
    IF Len(t) = 0 THEN 0
    ELSE 10 * TextToNum(SubSeq(t, 1, Len(t) - 1))
            + (CHOOSE k \in 0..9 : Digit(k) = t[Len(t)])

\* The number a beat count message mentions: the digits after "Detected ".
MentionedCount(message) ==
    LET stop == CHOOSE i \in 3..Len(message) :
                    message[i] \notin Digits /\ \A j \in 3..(i - 1) : message[j] \in Digits
    IN  TextToNum(SubSeq(message, 3, stop - 1))

\* C1: an invocation that acquired the audio context has closed it exactly
\* once when it ends, whether it returns or throws (read failure, decode
\* failure, too long a file, bad beat count, failed rendering), and the
\* context is not closed while the invocation is still running.
C1_ContextClosedOnce ==
    /\ closes <= 1
    /\ (audioContext = "closed") = (closes = 1)
    /\ ~Settled => closes = 0
    /\ (Settled /\ audioContext # "none") => (audioContext = "closed" /\ closes = 1)
    /\ pc \in {"reading", "decoding"} => audioContext = "open"

\* A rendering failed while another was still running, and the context is closed.
C1_Witness ==
    /\ pc = "failed"
    /\ error = RenderMessage
    /\ closes = 1
    /\ \E k \in Tasks : tasks[k] = "rendering"

\* C2: a decoded input longer than 8 s fails with the duration error before
\* the tempo is estimated, the beat count computed, a band rendered, a hit
\* classified or code generated; an input of 8 s or less never gets it.
C2_DurationErrorFirst ==
    /\ error = DurationMessage =>
          /\ pc = "failed"
          /\ audioBuffer # Nothing /\ Duration > 8000
          /\ tempo = Nothing /\ beatsInLoop = Nothing /\ bars = Nothing
          /\ steps = Nothing
          /\ \A k \in Tasks : tasks[k] = "idle" /\ slots[k] = Nothing
          /\ bands = Nothing /\ hits = Nothing /\ drumPattern = Nothing
          /\ code = <<>>
    /\ (audioBuffer # Nothing /\ Duration > 8000 /\ pc # "decoded") =>
          error = DurationMessage
    /\ (audioBuffer # Nothing /\ Duration <= 8000) => error # DurationMessage

\* A file of about 8.5 s was rejected.
C2_Witness ==
    /\ error = DurationMessage
    /\ file.duration = 8496

C4_ValidationBeforeBands ==
    /\ (\E k \in Tasks : tasks[k] # "idle") =>
          /\ tempo # Nothing
          /\ beatsInLoop # Nothing
          /\ The(beatsInLoop) \in 2..16
          /\ Duration <= 8000
    /\ beatsInLoop # Nothing => tempo # Nothing
    /\ pc = "valid" => (tempo # Nothing /\ \A k \in Tasks : tasks[k] = "idle")
    /\ (IsBeatCountError(error) \/ error = DurationMessage) =>
          \A k \in Tasks : tasks[k] = "idle"

\* The three renderings were started for a loop of 16 beats.
C4_Witness ==
    /\ pc = "rendering"
    /\ beatsInLoop = Some(16)
    /\ \A k \in Tasks : tasks[k] = "rendering"

\* C5: the tempo detectTempo returns is in [75, 160], for the default and
\* for every median interval; the doubling loop and the halving loop each
\* end after at most two iterations, and never both run.
C5_TempoInRange ==
    tempo # Nothing =>
        LET t == The(tempo)
        IN  /\ ~RatLT(t.bpm, Rat(75, 1))
            /\ ~RatLT(Rat(160, 1), t.bpm)
            /\ t.doubled \in 0..2
            /\ t.halved \in 0..2
            /\ ~(t.doubled > 0 /\ t.halved > 0)
            /\ t.via # "median" => t.bpm = Rat(120, 1)

\* A median interval of 0.16 s (375 BPM) was halved twice to 93.75 BPM.
C5_Witness ==
    /\ tempo # Nothing
    /\ The(tempo).via = "median"
    /\ The(tempo).halved = 2
    /\ The(tempo).bpm = Rat(375, 4)

(***************************************************************************)
(* Reading the generated code back                                         *)
(***************************************************************************)
\* The fragments between the k-th opening of a track and its closing.
TrackBlock(text, k) ==
    LET opens == {i \in 1..Len(text) : text[i] = TrackOpen}
        open  == CHOOSE i \in opens : Cardinality({j \in opens : j < i}) = k - 1
        close == CHOOSE j \in (open + 1)..Len(text) :
                    text[j] = TrackClose /\ \A m \in (open + 1)..(j - 1) : text[m] # TrackClose
    IN  SubSeq(text, open + 1, close - 1)

\* The token that starts at fragment i: the run of fragments up to the next
\* white space.
TokenAt(text, i) ==
    LET last == CHOOSE j \in i..Len(text) :
                    /\ j = Len(text) \/ IsSpace(text[j + 1])
                    /\ \A m \in i..(j - 1) : ~IsSpace(text[m + 1])
    IN  SubSeq(text, i, last)

\* The white space separated tokens that start in lo..hi, in order.
RECURSIVE TokensIn(_, _, _)
TokensIn(text, lo, hi) ==
    IF lo > hi THEN <<>>
    ELSE IF lo = hi
    THEN (IF ~IsSpace(text[lo]) /\ (lo = 1 \/ IsSpace(text[lo - 1]))
          THEN <<TokenAt(text, lo)>> ELSE <<>>)
    ELSE LET mid == (lo + hi) \div 2
         IN  TokensIn(text, lo, mid) \o TokensIn(text, mid + 1, hi)

SplitOnSpace(text) == TokensIn(text, 1, Len(text))

Sounds == <<"bd", "sd", "hh">>

HitsOf(k) == CASE k = 1 -> The(hits).kicks [] k = 2 -> The(hits).snares
               [] k = 3 -> The(hits).hihats

\* The step energies of what the filter of type t rendered.
EnergyOf(t) == getStepEnergy(RenderedData(The(rendered[t]), Duration), The(steps))

\* C6: the outcome is a function of the decoded input alone, whatever order
\* the three renderings complete in: lows is the energy of the low-pass
\* rendering, mids of the band-pass, highs of the high-pass, and hits,
\* statistics and code are those computed from them.
C6_BandsByFilter ==
    /\ bands # Nothing =>
          /\ The(bands).lows = EnergyOf("lowpass")
          /\ The(bands).mids = EnergyOf("bandpass")
          /\ The(bands).highs = EnergyOf("highpass")
    /\ pc = "done" =>
          LET L == EnergyOf("lowpass")
              M == EnergyOf("bandpass")
              H == EnergyOf("highpass")
              k == classifyKicks(L, M, H)
              s == classifySnares(L, M, H)
              h == classifyHiHats(L, M, H)
          IN  /\ The(hits) = [kicks |-> k, snares |-> s, hihats |-> h]
              /\ code = generateDrumCode(k, s, h, The(tempo).bpm, The(beatsInLoop))
              /\ The(drumPattern).kicks = Rat(CountTrue(k), 1)
              /\ The(drumPattern).snares = Rat(CountTrue(s), 1)
              /\ The(drumPattern).hihats = Rat(CountTrue(h), 1)

\* A run whose renderings did not complete in array order, low-pass having
\* rendered a signal and high-pass silence, has returned a pattern with kicks.
C6_Witness ==
    /\ pc = "done"
    /\ ~inArrayOrder
    /\ rendered["lowpass"] = Some(1)
    /\ rendered["highpass"] = Some(0)
    /\ CountTrue(The(hits).kicks) > 0

\* C7: in an accepted invocation each of the three energy profiles and each
\* of the three hit sequences has exactly beatsInLoop * 8 entries.
C7_StepCounts ==
    /\ steps # Nothing => The(steps) = The(beatsInLoop) * 8
    /\ \A k \in Tasks : slots[k] # Nothing =>
          IsSeq(The(slots[k])) /\ Len(The(slots[k])) = The(beatsInLoop) * 8
    /\ bands # Nothing =>
          \A p \in {The(bands).lows, The(bands).mids, The(bands).highs} :
              IsSeq(p) /\ Len(p) = The(beatsInLoop) * 8
    /\ hits # Nothing =>
          \A q \in {The(hits).kicks, The(hits).snares, The(hits).hihats} :
              IsSeq(q) /\ Len(q) = The(beatsInLoop) * 8

\* A loop of 3 beats was classified into sequences of 24 steps.
C7_Witness ==
    /\ hits # Nothing
    /\ beatsInLoop = Some(3)
    /\ Len(The(hits).kicks) = 24
    /\ Len(The(bands).highs) = 24

\* C8: the white space separated tokens of an instrument's track in the
\* generated code are exactly steps many, each the instrument's hit token
\* or ~, the k-th being the hit token iff the k-th hit is true.
C8_TokensRoundTrip ==
    pc = "done" =>
        \A k \in 1..3 :
            LET tokens == SplitOnSpace(TrackBlock(code, k))
                h == HitsOf(k)
            IN  /\ Len(tokens) = The(steps)
                /\ Len(tokens) = Len(h)
                /\ \A i \in 1..Len(tokens) :
                      /\ tokens[i] \in {<<Sounds[k]>>, <<"~">>}
                      /\ (tokens[i] = <<Sounds[k]>>) <=> h[i]

\* Code was generated for a loop whose last bar is short and whose hi-hat
\* track has both hits and rests.
C8_Witness ==
    /\ pc = "done"
    /\ The(beatsInLoop) % 4 # 0
    /\ \E i, j \in 1..The(steps) : The(hits).hihats[i] /\ ~The(hits).hihats[j]

\* A text of digits, a point and two digits.
TwoDecimals(t) ==
    /\ Len(t) >= 4
    /\ t[Len(t) - 2] = "."
    /\ \A i \in 1..Len(t) : i # Len(t) - 2 => t[i] \in Digits

\* The value of such a text, in hundredths.
Hundredths(t) ==
    100 * TextToNum(SubSeq(t, 1, Len(t) - 3)) + TextToNum(SubSeq(t, Len(t) - 1, Len(t)))

\* C9 as stated: bpm, beats, bars, kicks, snares and hihats are all integers
\* and duration has two decimals, for every accepted beat count.
C9_AllIntegers ==
    pc = "done" =>
        LET p == The(drumPattern)
        IN  /\ IsInteger(p.bpm) /\ IsInteger(p.beats) /\ IsInteger(p.bars)
            /\ IsInteger(p.kicks) /\ IsInteger(p.snares) /\ IsInteger(p.hihats)
            /\ TwoDecimals(p.duration)

\* C9 amended: bpm, beats, kicks, snares and hihats are integers; bars is
\* beats / 4, an integer exactly when beats is a multiple of 4; duration is
\* the decoded duration rounded to two decimals.
C9_IntegersButBars ==
    pc = "done" =>
        LET p == The(drumPattern)
        IN  /\ IsInteger(p.bpm) /\ IsInteger(p.beats)
            /\ IsInteger(p.kicks) /\ IsInteger(p.snares) /\ IsInteger(p.hihats)
            /\ p.beats.n = The(beatsInLoop)
            /\ p.bars.n * 4 = p.beats.n * p.bars.d
            /\ IsInteger(p.bars) <=> (The(beatsInLoop) % 4 = 0)
            /\ TwoDecimals(p.duration)
            /\ Abs(10 * Hundredths(p.duration) - Duration) <= 5

\* A loop of 2 beats at a fractional tempo was returned with bars = 1/2.
C9_Witness ==
    /\ pc = "done"
    /\ beatsInLoop = Some(2)
    /\ The(drumPattern).bars = [n |-> 1, d |-> 2]
    /\ ~IsInteger(The(tempo).bpm)

\* The rendering of filter type t is all zero.
SilentBand(t) ==
    /\ rendered[t] # Nothing
    /\ \A v \in {RenderedData(The(rendered[t]), Duration)[i] :
                    i \in 1..Len(RenderedData(The(rendered[t]), Duration))} : v = 0

\* C10: when all three renderings are silent, every normalized rms and peak
\* is 0 (divided by 1, not by the zero global peak), every hit is false and
\* every token of every track is ~.
C10_SilenceAllRests ==
    (\A t \in FilterTypeSet : SilentBand(t)) =>
        /\ \A k \in Tasks :
              \A i \in 1..Len(The(slots[k])) :
                  /\ The(slots[k])[i].rms2 = [n |-> 0, d |-> 1]
                  /\ The(slots[k])[i].peak = [n |-> 0, d |-> 1]
        /\ hits # Nothing =>
              \A k \in 1..3 : \A i \in 1..Len(HitsOf(k)) : ~HitsOf(k)[i]
        /\ pc = "done" =>
              /\ \A i \in 1..Len(code) : code[i] \notin {"bd", "sd", "hh"}
              /\ \A k \in 1..3 :
                    LET tokens == SplitOnSpace(TrackBlock(code, k))
                    IN  /\ Len(tokens) = The(steps)
                        /\ \A i \in 1..Len(tokens) : tokens[i] = <<"~">>

\* Code was generated for a silent loop of 4 beats.
C10_Witness ==
    /\ pc = "done"
    /\ \A t \in FilterTypeSet : SilentBand(t)
    /\ beatsInLoop = Some(4)
    /\ Len(SplitOnSpace(TrackBlock(code, 1))) = 32


(***************************************************************************)
(* C11  With fewer than 4 picked peaks detectTempo returns exactly 120 and *)
(* throws nothing: right after it the invocation is still pending with no  *)
(* error, the beat count that is then computed and validated is            *)
(* Math.round(duration / 60 * 120), and a later rejection is one of the    *)
(* beat-count check or of the renderings, never one of detectTempo.        *)
(***************************************************************************)
FewOnsets == tempo # Nothing /\ The(tempo).sparse

C11_FewPeaksDefault ==
    FewOnsets =>
        /\ The(tempo).bpm = Rat(DefaultTempo, 1)
        /\ pc = "tempo" => outcome = "pending" /\ error = <<>>
        /\ pc \notin {"idle", "reading", "decoding", "decoded", "checked"}
        /\ beatsInLoop # Nothing =>
               The(beatsInLoop) = MathRound(Rat(Duration * DefaultTempo, 60000))
        /\ pc = "failed" =>
               /\ beatsInLoop # Nothing
               /\ IF BadBeatCount(The(beatsInLoop)) THEN IsBeatCountError(error)
                                                     ELSE error = RenderMessage

\* Fewer than 4 peaks were picked and the beat count computed from 120 bpm
\* has been accepted by the validation.
C11_Witness ==
    /\ FewOnsets
    /\ pc = "valid"
    /\ The(beatsInLoop) = 8

(***************************************************************************)
(* C12  In the returned pattern kicks, snares and hihats are the numbers   *)
(* of true entries of the three hit sequences, and these are the sequences *)
(* the code was generated from: each track of the code holds exactly that  *)
(* many hit tokens of its instrument.                                      *)
(***************************************************************************)
StatOf(k) == CASE k = 1 -> The(drumPattern).kicks [] k = 2 -> The(drumPattern).snares
               [] k = 3 -> The(drumPattern).hihats

\* How many fragments of the k-th track of the code are the sound of the
\* k-th instrument.
SoundsInTrack(k) ==
    LET block == TrackBlock(code, k)
    IN  Cardinality({i \in 1..Len(block) : block[i] = Sounds[k]})

C12_CountsMatchHits ==
    /\ drumPattern # Nothing =>
          \A k \in 1..3 :
              /\ IsInteger(StatOf(k))
              /\ StatOf(k).n = Cardinality({i \in DOMAIN HitsOf(k) : HitsOf(k)[i] = TRUE})
    /\ pc = "done" =>
          \A k \in 1..3 : SoundsInTrack(k) = StatOf(k).n

\* A pattern was returned in which the three counts differ from each other,
\* kicks were found and some step has no kick.
C12_Witness ==
    /\ pc = "done"
    /\ StatOf(1).n > 0 /\ StatOf(1).n < The(steps)
    /\ StatOf(1) # StatOf(2) /\ StatOf(3) # StatOf(1)

(***************************************************************************)
(* C13  When the analysis of an uploaded file is rejected, the promise     *)
(* carries the error and neither pattern nor code; the step in which the   *)
(* upload handler catches it shows one toast whose description is the      *)
(* error's message, word for word, clears the typing indicator, leaves the *)
(* displayed code and the chat messages as they are and schedules nothing; *)
(* the handler never touches that upload again (no retry).  The message is *)
(* the one analyzeDrumLoop throws for that file.                           *)
(***************************************************************************)
\* The messages with which the analysis of file f can be rejected.
RejectionsOf(f) ==
    {CtorMessage, ReadMessage} \cup
    (IF ~f.ok THEN {DecodeMessage}
     ELSE IF f.duration > MaxDurationSec * 1000 THEN {DurationMessage}
     ELSE {RenderMessage} \cup {BeatCountMessage(b) : b \in (0..(MinBeats - 1)) \cup
                                    ((MaxBeats + 1)..(2 * MaxBeats))})

C13_FailureReported ==
    [][\A u \in 1..Len(uploads) :
          /\ (uploads[u].phase = "awaiting" /\ uploads'[u].phase = "caught") =>
                LET err == The(uploads'[u].settled)
                IN  /\ ~err.ok /\ err.code = <<>> /\ err.beats = 0 /\ err.bpm = 0
                    /\ err.message \in RejectionsOf(The(uploads[u].file))
                    /\ Len(toasts') = Len(toasts) + 1
                    /\ toasts'[Len(toasts')].title = <<"Analysis", " ", "Failed">>
                    /\ toasts'[Len(toasts')].description = err.message
                    /\ isTyping' = FALSE
                    /\ currentCode' = currentCode
                    /\ messages' = messages
                    /\ timers' = timers
          /\ uploads[u].phase = "caught" => uploads'[u] = uploads[u]
     ]_vars

\* While the code of an earlier upload is displayed, the analysis of a later
\* one was rejected for its beat count and the toast quotes that message.
C13_Witness ==
    /\ currentCode # NoCodeYet
    /\ Len(uploads) = 2 /\ uploads[1].phase = "shown" /\ uploads[2].phase = "caught"
    /\ IsBeatCountError(The(uploads[2].settled).message)
    /\ Len(toasts) = 1
    /\ toasts[1].description = BeatCountMessage(1)
    /\ messages[Len(messages)].role = "user"
    /\ ~isTyping

(***************************************************************************)
(* The three classifiers on their own (200-219): the energy profiles are   *)
(* drawn from entries on both sides of every threshold, and Classify is    *)
(* the only step.                                                          *)
(***************************************************************************)
\* An entry with rms r/100 and peak p/100.
Entry(r, p) == [rms2 |-> Rat(r * r, 10000), peak |-> Rat(p, 100)]

\* Low band: silence; exactly on the kick thresholds; just above them and
\* under 0.2; at 0.2; at 0.4.
LowEntries == {Entry(0, 0), Entry(15, 30), Entry(16, 31), Entry(20, 50), Entry(40, 100)}

\* Mid band: silence; exactly on the snare thresholds; above the rms
\* threshold but on the peak threshold; just above both; at 0.2.
MidEntries == {Entry(0, 0), Entry(15, 25), Entry(16, 25), Entry(16, 26), Entry(20, 30)}

\* High band: silence; exactly on the hi-hat thresholds; just above them;
\* two thirds of a low rms of 0.16 and more.
HighEntries == {Entry(0, 0), Entry(5, 10), Entry(6, 11), Entry(11, 20), Entry(50, 100)}

ClassifyInit ==
    /\ PageInit
    /\ energyCall = Nothing
    /\ file = [ok |-> FALSE, duration |-> 0, sampleRate |-> 0]
    /\ pc = "joined"
    /\ audioContext = "open"
    /\ closes = 0
    /\ audioBuffer = Nothing
    /\ tempo = Nothing
    /\ beatsInLoop = Nothing
    /\ bars = Nothing
    /\ steps = Nothing
    /\ tasks = [k \in Tasks |-> "fulfilled"]
    /\ rendered = [t \in FilterTypeSet |-> Nothing]
    /\ inArrayOrder = TRUE
    /\ slots = [k \in Tasks |-> Nothing]
    /\ \E lows \in [1..2 -> LowEntries], mids \in [1..2 -> MidEntries],
          highs \in [1..2 -> HighEntries] :
            bands = Some([lows |-> lows, mids |-> mids, highs |-> highs])
    /\ hits = Nothing
    /\ drumPattern = Nothing
    /\ code = <<>>
    /\ outcome = "pending"
    /\ error = <<>>

ClassifySpec == ClassifyInit /\ [][Classify]_vars

(***************************************************************************)
(* C14  For every step i, kick[i] is true iff low[i].rms > 0.15 and        *)
(* low[i].peak > 0.3 and low[i].rms > 1.5 high[i].rms; snare[i] iff        *)
(* mid[i].rms > 0.15 and mid[i].peak > 0.25 and low[i].rms < 0.4; hihat[i] *)
(* iff high[i].rms > 0.05 and high[i].peak > 0.1 and low[i].rms < 0.2 and  *)
(* mid[i].rms < 0.2.  A result is a function of the three entries at its   *)
(* own index only, and no instrument excludes another.                     *)
(***************************************************************************)
\* a/b < x for a fraction x, and x < a/b
Above(x, a, b) == a * x.d < b * x.n

Below(x, a, b) == b * x.n < a * x.d

C14_ClassifierRules ==
    hits # Nothing =>
        LET low == The(bands).lows
            mid == The(bands).mids
            high == The(bands).highs
            h == The(hits)
        IN  /\ Len(h.kicks) = Len(low) /\ Len(h.snares) = Len(mid)
            /\ Len(h.hihats) = Len(high)
            /\ \A i \in 1..Len(low) :
                  /\ h.kicks[i] <=>
                        /\ Above(low[i].rms2, 225, 10000)
                        /\ Above(low[i].peak, 3, 10)
                        /\ 9 * high[i].rms2.n * low[i].rms2.d
                              < 4 * low[i].rms2.n * high[i].rms2.d
                  /\ h.snares[i] <=>
                        /\ Above(mid[i].rms2, 225, 10000)
                        /\ Above(mid[i].peak, 25, 100)
                        /\ Below(low[i].rms2, 16, 100)
                  /\ h.hihats[i] <=>
                        /\ Above(high[i].rms2, 25, 10000)
                        /\ Above(high[i].peak, 1, 10)
                        /\ Below(low[i].rms2, 4, 100)
                        /\ Below(mid[i].rms2, 4, 100)

\* All three instruments hit on the first step, kick and snare alone on the
\* second.
C14_Witness ==
    /\ hits # Nothing
    /\ The(hits).kicks[1] /\ The(hits).snares[1] /\ The(hits).hihats[1]
    /\ The(hits).kicks[2] /\ The(hits).snares[2] /\ ~The(hits).hihats[2]

(***************************************************************************)
(* C15  The three filter passes are independent: the completion of one     *)
(* writes its own result and nothing of the other two.  Whatever order     *)
(* they complete in, the band profiles are handed on, and the classifiers  *)
(* run, only when all three passes are fulfilled and each has produced a   *)
(* whole profile of steps entries; the profiles handed on are these.       *)
(***************************************************************************)
WholeProfile(p) ==
    /\ IsSeq(p)
    /\ Len(p) = The(steps)
    /\ \A i \in 1..Len(p) : DOMAIN p[i] = {"rms2", "peak"}

AllProduced ==
    /\ \A k \in Tasks : /\ tasks[k] = "fulfilled"
                         /\ slots[k] # Nothing
                         /\ WholeProfile(The(slots[k]))
    /\ bands # Nothing
    /\ The(bands).lows = The(slots[1])
    /\ The(bands).mids = The(slots[2])
    /\ The(bands).highs = The(slots[3])

C15_ClassifyAfterAllBands ==
    [][/\ \A k \in Tasks :
             (tasks[k] = "rendering" /\ tasks'[k] # "rendering") =>
                 \A j \in Tasks \ {k} :
                     /\ tasks'[j] = tasks[j]
                     /\ slots'[j] = slots[j]
                     /\ rendered'[FilterTypes[j]] = rendered[FilterTypes[j]]
       /\ (bands' # Nothing \/ hits' # Nothing) => AllProduced'
       /\ (hits = Nothing /\ hits' # Nothing) => AllProduced /\ UNCHANGED <<tasks, slots, bands>>
      ]_vars

\* The hits were classified after the renderings completed in an order other
\* than that of the array, with different wave forms in two of the bands.
C15_Witness ==
    /\ hits # Nothing
    /\ ~inArrayOrder
    /\ AllProduced
    /\ The(rendered["lowpass"]) # The(rendered["highpass"])

(***************************************************************************)
(* getStepEnergy on its own: every array of up to MaxSamples samples with  *)
(* every step count that leaves a step at least one sample, which is what  *)
(* the pipeline passes (a loop of 2 beats or more lasts over half a second *)
(* and has 8 steps per beat, a buffer thousands of samples per second).    *)
(***************************************************************************)
MaxSamples == 5

SampleValues == {-2, -1, 0, 1, 2}

EnergyInit ==
    /\ PageInit
    /\ file = [ok |-> FALSE, duration |-> 0, sampleRate |-> 0]
    /\ pc = "idle"
    /\ audioContext = "none"
    /\ closes = 0
    /\ audioBuffer = Nothing
    /\ tempo = Nothing
    /\ beatsInLoop = Nothing
    /\ bars = Nothing
    /\ steps = Nothing
    /\ tasks = [k \in Tasks |-> "idle"]
    /\ rendered = [t \in FilterTypeSet |-> Nothing]
    /\ inArrayOrder = TRUE
    /\ slots = [k \in Tasks |-> Nothing]
    /\ bands = Nothing
    /\ hits = Nothing
    /\ drumPattern = Nothing
    /\ code = <<>>
    /\ outcome = "pending"
    /\ error = <<>>
    /\ \E len \in 1..MaxSamples :
          \E data \in [1..len -> SampleValues], n \in 1..len :
              energyCall = Some([data |-> data, steps |-> n, energies |-> Nothing])

\* 167-198
Measure ==
    /\ energyCall # Nothing
    /\ The(energyCall).energies = Nothing
    /\ energyCall' = Some([The(energyCall) EXCEPT
           !.energies = Some(getStepEnergy(The(energyCall).data, The(energyCall).steps))])
    /\ UNCHANGED <<invocation, page>>

EnergySpec == EnergyInit /\ [][Measure]_vars

(***************************************************************************)
(* C16  Every entry getStepEnergy returns has 0 <= rms <= peak <= 1,       *)
(* neither being NaN: peak is the largest absolute sample of the step's    *)
(* slice and rms the root of the mean square of the slice, both divided by *)
(* the largest absolute sample of the whole array, or by 1 when that is 0. *)
(* Samples after the last slice count for that divisor only.               *)
(***************************************************************************)
C16_NormalizedEnergies ==
    (energyCall # Nothing /\ The(energyCall).energies # Nothing) =>
        LET data     == The(energyCall).data
            n        == The(energyCall).steps
            energies == The(The(energyCall).energies)
            size     == Len(data) \div n
            largest  == Max({0} \cup {Abs(data[i]) : i \in 1..Len(data)})
            divisor  == IF largest = 0 THEN 1 ELSE largest
        IN  /\ Len(energies) = n
            /\ \A s \in 1..n :
                  LET e == energies[s]
                      slice == ((s - 1) * size + 1)..(s * size)
                      top == Max({Abs(data[i]) : i \in slice})
                  IN  /\ e.rms2.d > 0 /\ e.peak.d > 0
                      /\ e.rms2.n >= 0 /\ e.peak.n >= 0
                      /\ e.peak.n <= e.peak.d
                      /\ e.rms2.n * e.peak.d * e.peak.d <= e.peak.n * e.peak.n * e.rms2.d
                      /\ e.peak.n * divisor = top * e.peak.d
                      /\ e.rms2.n * size * divisor * divisor
                            = SumSquares(data, (s - 1) * size + 1, s * size) * e.rms2.d

\* Five samples in two steps: the fifth sample lies in no slice and is the
\* largest, so that no step reaches a peak of 1; the first step holds two
\* different samples, so that its rms is under its peak.
C16_Witness ==
    /\ energyCall # Nothing /\ The(energyCall).energies # Nothing
    /\ Len(The(energyCall).data) = 5 /\ The(energyCall).steps = 2
    /\ LET energies == The(The(energyCall).energies)
       IN  /\ \A s \in 1..2 : RatLT(energies[s].peak, Rat(1, 1))
           /\ RatLT(Rat(0, 1), energies[2].peak)
           /\ RatLT(energies[1].rms2, RatMul(energies[1].peak, energies[1].peak))
           /\ RatLT(Rat(0, 1), energies[1].rms2)

(***************************************************************************)
(* C17  When two different audio files were uploaded one after the other   *)
(* and both analyses and both display delays are over, the displayed code  *)
(* and the last agent message are those of the file uploaded second,       *)
(* whichever analysis completed first.                                     *)
(***************************************************************************)
\* The agent message the handler builds for upload u.
AgentMessageOf(u) ==
    LET result == The(uploads[u].settled)
    IN  Message("agent", The(uploads[u].file).name, result.beats, result.bpm, result.code)

LastAgentMessage ==
    LET at == {i \in 1..Len(messages) : messages[i].role = "agent"}
    IN  messages[CHOOSE i \in at : \A j \in at : j <= i]

BothDisplayed ==
    /\ Len(uploads) >= 2
    /\ uploads[1].file # uploads[2].file
    /\ uploads[1].phase = "shown" /\ uploads[2].phase = "shown"
    /\ \A u \in 3..Len(uploads) : uploads[u].phase = "returned"
    /\ timers = <<>>

C17_LaterUploadDisplayed ==
    BothDisplayed =>
        /\ currentCode = The(uploads[2].settled).code
        /\ LastAgentMessage = AgentMessageOf(2)
====
